---- MODULE Spec2Model ----
(***************************************************************************)
(* Hospital IT reporting system: the compliance-status derivation of the   *)
(* compliance screen, the next-maintenance-date trigger of the devices     *)
(* table and the request-escalation trigger of the requests table,         *)
(* together with the document-store write paths that run beside them and   *)
(* the row-level security policies of the requests table.                  *)
(*                                                                         *)
(* Time is an integer number of ticks since 2024-01-01T00:00Z; a calendar  *)
(* date is a day number since 2024-01-01 (day 0).                          *)
(***************************************************************************)
EXTENDS Integers, Sequences, FiniteSets, TLC

VARIABLES
    now,                 \* the wall clock, in ticks (new Date() / CURRENT_DATE)
    compliance_records,  \* table compliance_records: id -> row, or ABSENT
    records,             \* ComplianceManagement state: the fetched list
    loading,             \* ComplianceManagement state: loading flag
    editingRecord,       \* ComplianceManagement state: id being edited, or NoId
    formData,            \* ComplianceManagement state: the expiry_date field
    inflight,            \* the insert/update handleSubmit is awaiting, or NONE
    equipment_types,     \* table equipment_types: id -> row
    devices,             \* table devices: id -> row, or ABSENT
    fsDevices,           \* document collection 'devices': id -> fields, or ABSENT
    departments,         \* table departments: id -> row
    requests,            \* table requests: id -> row, or ABSENT
    fsRequests,          \* document collection 'requests': id -> fields, or ABSENT
    profiles,            \* table profiles: id -> row
    session,             \* auth.uid() of the database session, or NoId
    fetchedRequests,     \* ids of the rows the last SELECT on requests returned
    adminRequests,       \* RequestManagement state per screen: the fetched list
    selectedRequest,     \* RequestManagement state per screen: the open dialog
    resolutionNotes,     \* RequestManagement state per screen: the notes field
    pendingUpdates,      \* the updates of requests the screens are awaiting
    incident_reports,    \* table incident_reports: id -> row
    incidents,           \* IncidentManagement state per screen: the fetched list
    selectedIncident,    \* IncidentManagement state per screen: the open dialog
    resolutionData,      \* IncidentManagement state per screen: the two fields
    pendingIncidentUpdates, \* the updates of incident_reports being awaited
    maintenance_schedules, \* table maintenance_schedules: id -> row
    schedules,           \* MaintenanceManagement state per screen: fetched list
    showForm,            \* MaintenanceManagement state per screen
    editingSchedule,     \* MaintenanceManagement state per screen
    scheduleFormData,    \* MaintenanceManagement state per screen: formData
    pendingScheduleWrites, \* the writes of maintenance_schedules being awaited
    cameFrom,            \* history: the status a schedule had before its present one
    registered_profiles, \* rows of profiles inserted by handle_new_user, by email
    accounts,            \* Firebase Auth: the emails that have an account
    profileDocs,         \* Firestore collection 'profiles': uid -> document
    user,                \* AuthProvider state
    userProfile,         \* AuthProvider state: profile
    authLoading,         \* AuthProvider state: loading
    callbacks,           \* onAuthStateChanged callbacks that have not returned
    authCall             \* the signIn, signUp or signInWithGoogle call in flight

complianceVars == <<compliance_records, records, loading, editingRecord,
                    formData, inflight>>
deviceVars == <<equipment_types, devices, fsDevices>>
adminVars == <<adminRequests, selectedRequest, resolutionNotes, pendingUpdates>>
incidentVars == <<incident_reports, incidents, selectedIncident,
                  resolutionData, pendingIncidentUpdates>>
maintenanceVars == <<maintenance_schedules, schedules, showForm, editingSchedule,
                     scheduleFormData, pendingScheduleWrites, cameFrom>>
authVars == <<registered_profiles, accounts, profileDocs, user, userProfile,
              authLoading, callbacks, authCall>>
screenVars == <<adminVars, incidentVars, maintenanceVars, authVars>>
requestVars == <<departments, requests, fsRequests, profiles, session,
                 fetchedRequests, screenVars>>

vars == <<now, complianceVars, deviceVars, requestVars>>

---------------------------------------------------------------------------
(* Bounds of the model *)

TicksPerDay == 2      \* clock resolution: ticks in one day
MaxDay == 32          \* the clock stops at the start of this day
MaxRecords == 1       \* rows the compliance_records table can hold
MaxLatency == 1       \* ticks a write may stay outstanding
MaxDevices == 1       \* rows of the devices table, documents of 'devices'
MaxDaysRun == 1       \* days the database clock advances in the device runs
MaxRequests == 1      \* rows the requests table can hold
MaxDocs == 1          \* documents the 'requests' collection can hold
MaxOutstanding == 1   \* updates one screen can be awaiting at a time
MaxSchedules == 1     \* rows the maintenance_schedules table can hold
MaxCallbacks == 2     \* auth-state callbacks that can be running at a time

(* Program constants *)

RenewalWindowDays == 30

---------------------------------------------------------------------------
(* Values *)

NULL == [kind |-> "null"]                    \* JS null / SQL NULL
EMPTY == [kind |-> "empty"]                  \* the empty string ''
DateStr(d) == [kind |-> "date", day |-> d]   \* 'YYYY-MM-DD' of day d
\* a string new Date() cannot parse, such as a date of a year past 9999
Unparseable == [kind |-> "unparseable"]
Blank == [kind |-> "blank"]                  \* a string of white space only
Text == [kind |-> "text"]                    \* a string with text in it
Stamp(t) == [kind |-> "time", at |-> t]      \* toISOString() of instant t
ABSENT == [kind |-> "absent"]                \* no such row
NONE == [kind |-> "none"]                    \* no outstanding write
NoId == 0
NaN == -1                                    \* getTime() of an Invalid Date

RecordIds == 1..MaxRecords
MaxTick == MaxDay * TicksPerDay

\* The dates the <input type="date"> of the form is set to.
ExpiryChoices == {DateStr(1), DateStr(RenewalWindowDays),
                  DateStr(RenewalWindowDays + 1)}

\* Every value the form can hand to the status derivation.
ExpiryInputs == ExpiryChoices \cup {EMPTY, Unparseable}

Statuses == {"valid", "pending_renewal", "expired"}

---------------------------------------------------------------------------
(* date helpers *)

\* JS truthiness of a string | null
Truthy(s) == s.kind \notin {"null", "empty"}

\* x || null
OrNull(s) == IF Truthy(s) THEN s ELSE NULL

\* s.trim()
trim(s) == IF s.kind = "blank" THEN EMPTY ELSE s

\* x || ''
OrEmpty(s) == IF Truthy(s) THEN s ELSE EMPTY

\* new Date('YYYY-MM-DD'): midnight UTC of that day; anything else that is
\* not a date string gives an Invalid Date.
NewDate(s) == IF s.kind = "date" THEN s.day * TicksPerDay ELSE NaN

\* date-fns addDays: same time of day, amount days later
addDays(date, amount) == IF date = NaN THEN NaN ELSE date + amount * TicksPerDay

\* date-fns isBefore: false when either side is an Invalid Date
isBefore_numeric(date, dateToCompare) == date < dateToCompare

isBefore(date, dateToCompare) ==
    /\ date # NaN
    /\ dateToCompare # NaN
    /\ date < dateToCompare

\* The calendar day (UTC) an instant falls on.
DayOf(t) == t \div TicksPerDay

---------------------------------------------------------------------------
(* ComplianceManagement.getComplianceStatus; clock is its new Date() *)

getComplianceStatus_absentPending(expiryDate, clock) ==
    IF ~Truthy(expiryDate) THEN "pending_renewal"
    ELSE IF isBefore(NewDate(expiryDate), clock) THEN "expired"
    ELSE IF isBefore(NewDate(expiryDate), addDays(clock, RenewalWindowDays))
         THEN "pending_renewal"
    ELSE "valid"

getComplianceStatus_noExpiredCheck(expiryDate, clock) ==
    IF ~Truthy(expiryDate) THEN "valid"
    ELSE IF isBefore(NewDate(expiryDate), addDays(clock, RenewalWindowDays))
         THEN "pending_renewal"
    ELSE "valid"

getComplianceStatus_inclusiveWindow(expiryDate, clock) ==
    IF ~Truthy(expiryDate) THEN "valid"
    ELSE IF isBefore(NewDate(expiryDate), clock) THEN "expired"
    ELSE IF ~isBefore(addDays(clock, RenewalWindowDays), NewDate(expiryDate))
         THEN "pending_renewal"
    ELSE "valid"

getComplianceStatus(expiryDate, clock) ==
    IF ~Truthy(expiryDate) THEN "valid"
    ELSE LET expiry == NewDate(expiryDate)
             thirtyDaysFromNow == addDays(clock, RenewalWindowDays)
         IN  IF isBefore(expiry, clock) THEN "expired"
             ELSE IF isBefore(expiry, thirtyDaysFromNow) THEN "pending_renewal"
             ELSE "valid"

---------------------------------------------------------------------------
(* The compliance screen *)

ComplianceIdle ==
    /\ compliance_records = [id \in RecordIds |-> ABSENT]
    /\ records = [id \in RecordIds |-> ABSENT]
    /\ loading = TRUE
    /\ editingRecord = NoId
    /\ formData = [expiry_date |-> EMPTY]
    /\ inflight = NONE

\* The clock advances; an outstanding write is answered within MaxLatency.
Tick ==
    /\ now < MaxTick
    /\ inflight # NONE => now - inflight.at < MaxLatency
    /\ now' = now + 1
    /\ UNCHANGED <<compliance_records, records, loading, editingRecord,
                   formData, inflight,
                   deviceVars, requestVars>>

\* fetchData on mount: the select answers, setRecords stores the rows and
\* the loading flag drops.
fetchData ==
    /\ loading
    /\ inflight = NONE
    /\ records' = compliance_records
    /\ loading' = FALSE
    /\ UNCHANGED <<now, compliance_records, editingRecord, formData, inflight,
                   deviceVars, requestVars>>

\* onChange of the expiry date input
setExpiryDate(value) ==
    /\ formData' = [formData EXCEPT !.expiry_date = value]
    /\ UNCHANGED <<now, compliance_records, records, loading, editingRecord,
                   inflight,
                   deviceVars, requestVars>>

startEdit(id) ==
    /\ records[id] # ABSENT
    /\ editingRecord' = id
    /\ formData' = [expiry_date |-> OrEmpty(records[id].expiry_date)]
    /\ UNCHANGED <<now, compliance_records, records, loading, inflight,
                   deviceVars, requestVars>>

resetForm ==
    /\ editingRecord' = NoId
    /\ formData' = [expiry_date |-> EMPTY]
    /\ UNCHANGED <<now, compliance_records, records, loading, inflight,
                   deviceVars, requestVars>>

\* handleSubmit up to its await: setLoading(true), builds recordData and
\* sends the update or insert.  The submit button is disabled while loading.
handleSubmit_writesThrough ==
    /\ ~loading
    /\ loading' = TRUE
    /\ inflight' =
         [kind |-> "write",
          id |-> editingRecord,
          input |-> formData.expiry_date,
          at |-> now,
          recordData |->
              [expiry_date |-> OrNull(formData.expiry_date),
               status |-> getComplianceStatus(formData.expiry_date, now)]]
    /\ compliance_records' =
         IF editingRecord # NoId /\ compliance_records[editingRecord] # ABSENT
         THEN [compliance_records EXCEPT ![editingRecord].status =
                   getComplianceStatus(formData.expiry_date, now)]
         ELSE compliance_records
    /\ UNCHANGED <<now, records, editingRecord, formData,
                   deviceVars, requestVars>>

handleSubmit ==
    /\ ~loading
    /\ loading' = TRUE
    /\ inflight' =
         [kind |-> "write",
          id |-> editingRecord,
          input |-> formData.expiry_date,
          at |-> now,
          recordData |->
              [expiry_date |-> OrNull(formData.expiry_date),
               status |-> getComplianceStatus(formData.expiry_date, now)]]
    /\ UNCHANGED <<now, compliance_records, records, editingRecord, formData,
                   deviceVars, requestVars>>

FreeIds == {id \in RecordIds : compliance_records[id] = ABSENT}

\* The table after the outstanding write: update ... eq('id', id), or insert
\* under a fresh id.
Written ==
    IF inflight.id # NoId
    THEN [compliance_records EXCEPT ![inflight.id] = inflight.recordData]
    ELSE LET id == CHOOSE i \in FreeIds : \A j \in FreeIds : i <= j
         IN  [compliance_records EXCEPT ![id] = inflight.recordData]

\* The store applies the write and handleSubmit resumes: resetForm(),
\* fetchData(), setLoading(false).
writeApplied ==
    /\ inflight # NONE
    /\ inflight.id = NoId => FreeIds # {}
    /\ compliance_records' = Written
    /\ editingRecord' = NoId
    /\ formData' = [expiry_date |-> EMPTY]
    /\ records' = Written
    /\ loading' = FALSE
    /\ inflight' = NONE
    /\ UNCHANGED <<now, deviceVars, requestVars>>

\* The store answers with an error: nothing is written, the form stays.
writeFailed ==
    /\ inflight # NONE
    /\ inflight' = NONE
    /\ loading' = FALSE
    /\ UNCHANGED <<now, compliance_records, records, editingRecord, formData,
                   deviceVars, requestVars>>

NextCompliance ==
    \/ Tick
    \/ fetchData
    \/ \E value \in ExpiryChoices \cup {EMPTY} : setExpiryDate(value)
    \/ \E id \in RecordIds : startEdit(id)
    \/ resetForm
    \/ handleSubmit
    \/ writeApplied
    \/ writeFailed

---------------------------------------------------------------------------
(* Calendar: day numbers since 2024-01-01 and (year, month, day) *)

IsLeapYear(y) == (y % 4 = 0 /\ y % 100 # 0) \/ y % 400 = 0

DaysInMonth(y, m) ==
    IF m = 2 THEN (IF IsLeapYear(y) THEN 29 ELSE 28)
    ELSE IF m \in {4, 6, 9, 11} THEN 30
    ELSE 31

RECURSIVE ToYMDFrom(_, _, _)
ToYMDFrom(y, m, n) ==
    IF n < DaysInMonth(y, m) THEN <<y, m, n + 1>>
    ELSE IF m = 12 THEN ToYMDFrom(y + 1, 1, n - DaysInMonth(y, m))
    ELSE ToYMDFrom(y, m + 1, n - DaysInMonth(y, m))

\* The calendar date of day number n >= 0.
ToYMD(n) == ToYMDFrom(2024, 1, n)

RECURSIVE DaysBefore(_, _)
DaysBefore(y, m) ==
    IF y = 2024 /\ m = 1 THEN 0
    ELSE IF m = 1 THEN DaysBefore(y - 1, 12) + DaysInMonth(y - 1, 12)
    ELSE DaysBefore(y, m - 1) + DaysInMonth(y, m - 1)

\* The day number of a calendar date on or after 2024-01-01.
FromYMD(y, m, d) == DaysBefore(y, m) + d - 1

---------------------------------------------------------------------------
(* Devices: the relational table with its trigger, and the document store *)

SqlInt(n) == [kind |-> "int", val |-> n]        \* a non-NULL integer column

\* The equipment type the modelled devices refer to ('MRI Machine').
EquipmentTypeIds == {1}
DeviceIds == 1..MaxDevices

\* Values an administrator stores in maintenance_interval_days; the column
\* is a nullable integer without a CHECK constraint.
IntervalChoices == {NULL, SqlInt(0 - 1), SqlInt(0), SqlInt(30), SqlInt(90)}

\* Column values of the device statements.
LastMaintenanceChoices == {NULL, DateStr(FromYMD(2024, 1, 1))}
NextMaintenanceChoices == {NULL, DateStr(FromYMD(2024, 1, 6))}

DeviceStatuses == {"active", "faulty"}

\* The dates the database clock starts on.
StartDays == {FromYMD(2024, 1, 1), FromYMD(2024, 6, 1)}

\* CURRENT_DATE
CURRENT_DATE == DayOf(now)

\* date + INTERVAL '1 day' * n, stored into a date column
PlusDays(date, n) == DateStr(date.day + n)

\* COALESCE(a, b)
COALESCE(a, b) == IF a # NULL THEN a ELSE b

\* update_next_maintenance_date(): BEFORE INSERT OR UPDATE ON devices
update_next_maintenance_date_fromToday(NEWROW) ==
    IF NEWROW.equipment_type_id # NoId
    THEN LET et == equipment_types[NEWROW.equipment_type_id]
         IN  [NEWROW EXCEPT !.next_maintenance_date =
                 IF et.maintenance_interval_days = NULL THEN NULL
                 ELSE PlusDays(DateStr(CURRENT_DATE),
                               et.maintenance_interval_days.val)]
    ELSE NEWROW

update_next_maintenance_date(NEWROW) ==
    IF NEWROW.equipment_type_id # NoId
    THEN LET et == equipment_types[NEWROW.equipment_type_id]
         IN  [NEWROW EXCEPT !.next_maintenance_date =
                 IF et.maintenance_interval_days = NULL THEN NULL
                 ELSE PlusDays(COALESCE(NEWROW.last_maintenance_date,
                                        DateStr(CURRENT_DATE)),
                               et.maintenance_interval_days.val)]
    ELSE NEWROW

DeviceIdle ==
    /\ equipment_types =
         [id \in EquipmentTypeIds |->
            [maintenance_interval_days |-> SqlInt(30)]]
    /\ devices = [id \in DeviceIds |-> ABSENT]
    /\ fsDevices = [id \in DeviceIds |-> ABSENT]

\* A day passes on the database clock.
nextDay ==
    /\ \E s \in StartDays : CURRENT_DATE - s \in 0..(MaxDaysRun - 1)
    /\ now' = now + TicksPerDay
    /\ UNCHANGED <<complianceVars, deviceVars, requestVars>>

\* UPDATE equipment_types SET maintenance_interval_days = v WHERE id = ...
\* (policy "Admins can manage equipment types")
setMaintenanceInterval(id, v) ==
    /\ equipment_types' =
         [equipment_types EXCEPT ![id].maintenance_interval_days = v]
    /\ UNCHANGED <<now, complianceVars, devices, fsDevices, requestVars>>

\* INSERT INTO devices (policy "Admins can manage devices"); the trigger
\* rewrites the row before it is stored.
insertDevice(type, last, next) ==
    /\ \E id \in DeviceIds :
         /\ devices[id] = ABSENT
         /\ \A j \in DeviceIds : devices[j] = ABSENT => id <= j
         /\ devices' = [devices EXCEPT ![id] =
              update_next_maintenance_date(
                  [equipment_type_id |-> type,
                   last_maintenance_date |-> last,
                   next_maintenance_date |-> next])]
    /\ UNCHANGED <<now, complianceVars, equipment_types, fsDevices, requestVars>>

\* UPDATE devices SET ... WHERE id = ...; NEWROW is the row with the assigned
\* columns replaced, and the trigger rewrites it before it is stored.
updateDevice(id, type, last, next) ==
    /\ devices[id] # ABSENT
    /\ devices' = [devices EXCEPT ![id] =
         update_next_maintenance_date(
             [equipment_type_id |-> type,
              last_maintenance_date |-> last,
              next_maintenance_date |-> next])]
    /\ UNCHANGED <<now, complianceVars, equipment_types, fsDevices, requestVars>>

\* Firestore updateDoc: the given fields replace or extend the document's.
Merge(old, updates) ==
    [f \in DOMAIN old \cup DOMAIN updates |->
        IF f \in DOMAIN updates THEN updates[f] ELSE old[f]]

\* deviceService.createDevice: addDoc with the data and the timestamps (of
\* which the model carries updatedAt)
createDevice(deviceData) ==
    \E id \in DeviceIds :
        /\ fsDevices[id] = ABSENT
        /\ \A j \in DeviceIds : fsDevices[j] = ABSENT => id <= j
        /\ fsDevices' = [fsDevices EXCEPT ![id] =
             Merge(deviceData, [updatedAt |-> now])]

\* deviceService.updateDevice: updateDoc with the data and updatedAt
fsUpdateDevice(deviceId, updates) ==
    /\ fsDevices[deviceId] # ABSENT
    /\ fsDevices' = [fsDevices EXCEPT ![deviceId] =
         Merge(fsDevices[deviceId], Merge(updates, [updatedAt |-> now]))]

\* DeviceManagement.handleSubmit with the form holding the given values;
\* editingDevice is NoId for a new device.
DeviceManagement_handleSubmit(editingDevice, status) ==
    /\ LET deviceData == [status |-> status]
       IN  IF editingDevice # NoId
           THEN fsUpdateDevice(editingDevice, deviceData)
           ELSE createDevice(deviceData)
    /\ UNCHANGED <<now, complianceVars, equipment_types, devices, requestVars>>

\* DeviceManagement.handleDelete -> deviceService.deleteDevice
handleDelete(deviceId) ==
    /\ fsDevices[deviceId] # ABSENT
    /\ fsDevices' = [fsDevices EXCEPT ![deviceId] = ABSENT]
    /\ UNCHANGED <<now, complianceVars, equipment_types, devices, requestVars>>

NextDevice ==
    \/ nextDay
    \/ \E id \in EquipmentTypeIds, v \in IntervalChoices :
           setMaintenanceInterval(id, v)
    \/ \E type \in EquipmentTypeIds \cup {NoId},
          last \in LastMaintenanceChoices, next \in NextMaintenanceChoices :
           insertDevice(type, last, next)
    \/ \E id \in DeviceIds, type \in EquipmentTypeIds \cup {NoId},
          last \in LastMaintenanceChoices, next \in NextMaintenanceChoices :
           updateDevice(id, type, last, next)
    \/ \E editingDevice \in DeviceIds \cup {NoId}, status \in DeviceStatuses :
           DeviceManagement_handleSubmit(editingDevice, status)
    \/ \E id \in DeviceIds : handleDelete(id)

---------------------------------------------------------------------------
(* Requests: the relational table with its escalation trigger *)

DepartmentIds == {1, 2}
RequestIds == 1..MaxRequests
ProfileIds == {1, 2, 3}

UrgencyLevels == {"routine", "urgent", "emergency", "critical"}
Priorities == {"low", "medium", "high", "urgent"}
RequestStatuses == {"pending", "in_progress", "completed", "rejected"}
Roles == {"admin", "user"}

\* SELECT id FROM departments WHERE is_critical = true
CriticalDepartments == {d \in DepartmentIds : departments[d].is_critical}

\* Auto-escalate emergency requests
rule_priority_emergencyOnly(NEWROW) ==
    IF NEWROW.urgency_level = "emergency"
    THEN [NEWROW EXCEPT !.priority = "urgent"]
    ELSE NEWROW

rule_priority_setsHigh(NEWROW) ==
    IF NEWROW.urgency_level = "emergency" \/ NEWROW.urgency_level = "critical"
    THEN [NEWROW EXCEPT !.priority = "high"]
    ELSE NEWROW

rule_priority(NEWROW) ==
    IF NEWROW.urgency_level = "emergency" \/ NEWROW.urgency_level = "critical"
    THEN [NEWROW EXCEPT !.priority = "urgent"]
    ELSE NEWROW

\* Set patient impact for critical departments
rule_patient_impact_none(NEWROW) == NEWROW

rule_patient_impact_assigns(NEWROW) ==
    [NEWROW EXCEPT !.patient_impact = NEWROW.department_id \in CriticalDepartments]

rule_patient_impact_readsPriority(NEWROW) ==
    IF NEWROW.department_id \in CriticalDepartments /\ NEWROW.priority = "urgent"
    THEN [NEWROW EXCEPT !.patient_impact = TRUE]
    ELSE NEWROW

rule_patient_impact(NEWROW) ==
    IF NEWROW.department_id \in CriticalDepartments
    THEN [NEWROW EXCEPT !.patient_impact = TRUE]
    ELSE NEWROW

\* check_request_escalation(): BEFORE INSERT OR UPDATE ON requests
check_request_escalation(NEWROW) == rule_patient_impact(rule_priority(NEWROW))

RequestIdle ==
    /\ departments = [d \in DepartmentIds |-> [is_critical |-> d = 1]]
    /\ requests = [id \in RequestIds |-> ABSENT]

\* UPDATE departments SET is_critical = ... (policy "Admins can manage
\* departments")
setDepartmentCritical(d, flag) ==
    /\ departments' = [departments EXCEPT ![d].is_critical = flag]
    /\ UNCHANGED <<now, complianceVars, deviceVars, requests, fsRequests,
                   profiles, session, fetchedRequests, screenVars>>

\* INSERT INTO requests; status takes its default and the trigger rewrites
\* the row before it is stored.
insertRequest(user_id, urgency_level, department_id, priority, patient_impact) ==
    /\ \E id \in RequestIds :
         /\ requests[id] = ABSENT
         /\ \A j \in RequestIds : requests[j] = ABSENT => id <= j
         /\ requests' = [requests EXCEPT ![id] =
              check_request_escalation(
                  [user_id |-> user_id,
                   urgency_level |-> urgency_level,
                   department_id |-> department_id,
                   priority |-> priority,
                   patient_impact |-> patient_impact,
                   status |-> "pending",
                   resolution_notes |-> NULL,
                   completed_at |-> NULL])]
    /\ UNCHANGED <<now, complianceVars, deviceVars, departments, fsRequests,
                   profiles, session, fetchedRequests, screenVars>>

\* The statuses the request row and the detail dialog offer for a request.
OfferedStatuses(status) ==
    IF status = "pending" THEN {"in_progress", "rejected"}
    ELSE IF status = "in_progress" THEN {"completed"}
    ELSE {}

\* updateData of RequestManagement.updateRequestStatus (of which the model
\* leaves out updated_at)
updateData(newStatus, notes, clock) ==
    IF newStatus = "completed" /\ Truthy(notes)
    THEN [status |-> newStatus, resolution_notes |-> notes,
          completed_at |-> Stamp(clock)]
    ELSE [status |-> newStatus]

\* The table after UPDATE requests SET ... WHERE id = requestId; the trigger
\* rewrites the row before it is stored, and no row means no change.
Updated(requestId, data) ==
    IF requests[requestId] = ABSENT THEN requests
    ELSE [requests EXCEPT ![requestId] =
              check_request_escalation(Merge(requests[requestId], data))]

\* RequestManagement.updateRequestStatus from a screen whose list shows the
\* stored status, with notes typed in the dialog, answered at once.
updateRequestStatus(requestId, newStatus) ==
    /\ requests[requestId] # ABSENT
    /\ newStatus \in OfferedStatuses(requests[requestId].status)
    /\ requests' = Updated(requestId, updateData(newStatus, Text, now))
    /\ UNCHANGED <<now, complianceVars, deviceVars, departments, fsRequests,
                   profiles, session, fetchedRequests, screenVars>>

\* The statements of sessions the policies admit; the requests are filed
\* under one profile.
NextRequest ==
    \/ \E d \in DepartmentIds, flag \in BOOLEAN : setDepartmentCritical(d, flag)
    \/ \E urgency_level \in UrgencyLevels,
          department_id \in DepartmentIds \cup {NoId},
          priority \in Priorities, patient_impact \in BOOLEAN :
           insertRequest(2, urgency_level, department_id, priority, patient_impact)
    \/ \E id \in RequestIds,
          newStatus \in {"in_progress", "rejected", "completed"} :
           updateRequestStatus(id, newStatus)

---------------------------------------------------------------------------
(* Requests: the document-store path of the request dialog *)

DocIds == 1..MaxDocs
RequestTypes == {"issue", "equipment", "emergency"}

FsRequestIdle == fsRequests = [id \in DocIds |-> ABSENT]

\* requestService.createRequest: addDoc(collection(db, 'requests'), ...)
createRequest(requestData) ==
    /\ \E id \in DocIds :
         /\ fsRequests[id] = ABSENT
         /\ \A j \in DocIds : fsRequests[j] = ABSENT => id <= j
         /\ fsRequests' = [fsRequests EXCEPT ![id] =
              [userId |-> requestData.userId,
               departmentId |-> requestData.departmentId,
               priority |-> requestData.priority,
               urgencyLevel |-> requestData.urgencyLevel,
               patientImpact |-> requestData.patientImpact,
               status |-> "pending",
               createdAt |-> now,
               updatedAt |-> now]]
    /\ UNCHANGED <<now, complianceVars, deviceVars, departments, requests,
                   profiles, session, fetchedRequests, screenVars>>

\* The urgency levels the dialog lets the user submit: the select is
\* disabled in an emergency dialog, which opens with 'emergency'.
OfferedUrgencyLevels(type) ==
    IF type = "emergency" THEN {"emergency"} ELSE UrgencyLevels

\* RequestModal.handleSubmit with the form as the user left it
RequestModal_handleSubmit(profile, type, departmentId, priority, urgencyLevel, patientImpact) ==
    /\ profile # NoId
    /\ urgencyLevel \in OfferedUrgencyLevels(type)
    /\ createRequest([userId |-> profile,
                      departmentId |-> departmentId,
                      priority |-> priority,
                      urgencyLevel |-> urgencyLevel,
                      patientImpact |-> patientImpact])

NextFsRequest ==
    \/ \E d \in DepartmentIds, flag \in BOOLEAN : setDepartmentCritical(d, flag)
    \/ \E profile \in {NoId, 2}, type \in RequestTypes,
          departmentId \in DepartmentIds \cup {NoId},
          priority \in Priorities, urgencyLevel \in UrgencyLevels,
          patientImpact \in BOOLEAN :
           RequestModal_handleSubmit(profile, type, departmentId, priority,
                                     urgencyLevel, patientImpact)

---------------------------------------------------------------------------
(* Requests: row-level security *)

\* auth.users ids of the three profiles
AuthUids == <<11, 12, 13>>

AccessIdle ==
    /\ profiles = [p \in ProfileIds |->
                     [user_id |-> AuthUids[p],
                      role |-> IF p = 1 THEN "admin" ELSE "user"]]
    /\ session = NoId
    /\ fetchedRequests = {}

\* SELECT id FROM profiles WHERE user_id = auth.uid()
OwnProfileIds(uid) == {p \in ProfileIds : profiles[p].user_id = uid}

\* EXISTS (SELECT 1 FROM profiles WHERE user_id = auth.uid() AND role = 'admin')
IsAdmin(uid) ==
    \E p \in ProfileIds : profiles[p].user_id = uid /\ profiles[p].role = "admin"

\* Policy "Users can read own requests"
UsersCanReadOwnRequests(uid, row) ==
    uid # NoId /\ row.user_id \in OwnProfileIds(uid)

\* Policy "Admins can read all requests"
AdminsCanReadAllRequests(uid, row) == uid # NoId /\ IsAdmin(uid)

\* Policy "Users can create requests"
UsersCanCreateRequests(uid, row) ==
    uid # NoId /\ row.user_id \in OwnProfileIds(uid)

\* Policy "Admins can update requests"
AdminsCanUpdateRequests_authenticated(uid, row) == uid # NoId

AdminsCanUpdateRequests(uid, row) == uid # NoId /\ IsAdmin(uid)

\* The session of the API client: a sign-in, or a sign-out (NoId)
setSession(uid) ==
    /\ session' = uid
    /\ fetchedRequests' = {}
    /\ UNCHANGED <<now, complianceVars, deviceVars, departments, requests,
                   fsRequests, profiles, screenVars>>

\* UserManagement.handleUpdateUser: UPDATE profiles SET role = ... under
\* policy "Admins can update profiles"
handleUpdateUser(p, role) ==
    /\ session # NoId
    /\ IsAdmin(session)
    /\ profiles' = [profiles EXCEPT ![p].role = role]
    /\ UNCHANGED <<now, complianceVars, deviceVars, departments, requests,
                   fsRequests, session, fetchedRequests, screenVars>>

\* fetchRequests: SELECT ... FROM requests, filtered by the SELECT policies
fetchRequests ==
    /\ fetchedRequests' =
         {id \in RequestIds :
            /\ requests[id] # ABSENT
            /\ \/ UsersCanReadOwnRequests(session, requests[id])
               \/ AdminsCanReadAllRequests(session, requests[id])}
    /\ UNCHANGED <<now, complianceVars, deviceVars, departments, requests,
                   fsRequests, profiles, session, screenVars>>

\* INSERT INTO requests by the session, checked by the INSERT policy
sessionInsertRequest(user_id) ==
    /\ UsersCanCreateRequests(session, [user_id |-> user_id])
    /\ insertRequest(user_id, "routine", NoId, "medium", FALSE)

\* UPDATE requests SET status = ... by the session: the UPDATE policy
\* selects the rows the statement may touch
sessionUpdateRequestStatus(requestId, newStatus) ==
    /\ requests[requestId] # ABSENT
    /\ AdminsCanUpdateRequests(session, requests[requestId])
    /\ updateRequestStatus(requestId, newStatus)

NextAccess ==
    \/ \E uid \in {NoId} \cup {AuthUids[p] : p \in ProfileIds} : setSession(uid)
    \/ \E p \in ProfileIds, role \in Roles : handleUpdateUser(p, role)
    \/ fetchRequests
    \/ \E user_id \in ProfileIds : sessionInsertRequest(user_id)
    \/ \E id \in RequestIds,
          newStatus \in {"in_progress", "rejected", "completed"} :
           sessionUpdateRequestStatus(id, newStatus)

---------------------------------------------------------------------------
(* The admin request screen (RequestManagement), open in up to two browsers *)

AdminScreens == {1, 2}
NotesChoices == {EMPTY, Blank, Text}

AdminIdle ==
    /\ adminRequests = [a \in AdminScreens |-> [id \in RequestIds |-> ABSENT]]
    /\ selectedRequest = [a \in AdminScreens |-> NONE]
    /\ resolutionNotes = [a \in AdminScreens |-> EMPTY]
    /\ pendingUpdates = {}

\* A request filed earlier and not yet handled.
FiledRequest ==
    [user_id |-> 2, urgency_level |-> "routine", department_id |-> NoId,
     priority |-> "medium", patient_impact |-> FALSE, status |-> "pending",
     resolution_notes |-> NULL, completed_at |-> NULL]

\* The rows such a request is stored as, filed as routine or as an emergency
FiledRequests ==
    {check_request_escalation([FiledRequest EXCEPT !.urgency_level = u]) :
         u \in {"routine", "emergency"}}

\* fetchRequests answers: setRequests(data) with the rows as stored now
setRequests(a) ==
    /\ adminRequests' = [adminRequests EXCEPT ![a] = requests]
    /\ UNCHANGED <<now, complianceVars, deviceVars, departments, requests,
                   fsRequests, profiles, session, fetchedRequests, incidentVars, maintenanceVars, authVars,
                   selectedRequest, resolutionNotes, pendingUpdates>>

\* "View Details" of a listed request: setSelectedRequest(request)
viewDetails(a, id) ==
    /\ adminRequests[a][id] # ABSENT
    /\ selectedRequest' =
         [selectedRequest EXCEPT ![a] = [id |-> id, row |-> adminRequests[a][id]]]
    /\ UNCHANGED <<now, complianceVars, deviceVars, departments, requests,
                   fsRequests, profiles, session, fetchedRequests, incidentVars, maintenanceVars, authVars,
                   adminRequests, resolutionNotes, pendingUpdates>>

\* "Complete" of a listed request shown in progress: opens the dialog with
\* the notes cleared
openComplete(a, id) ==
    /\ adminRequests[a][id] # ABSENT
    /\ adminRequests[a][id].status = "in_progress"
    /\ selectedRequest' =
         [selectedRequest EXCEPT ![a] = [id |-> id, row |-> adminRequests[a][id]]]
    /\ resolutionNotes' = [resolutionNotes EXCEPT ![a] = EMPTY]
    /\ UNCHANGED <<now, complianceVars, deviceVars, departments, requests,
                   fsRequests, profiles, session, fetchedRequests, incidentVars, maintenanceVars, authVars,
                   adminRequests, pendingUpdates>>

\* The dialog's close button: setSelectedRequest(null), setResolutionNotes('')
closeDetails(a) ==
    /\ selectedRequest[a] # NONE
    /\ selectedRequest' = [selectedRequest EXCEPT ![a] = NONE]
    /\ resolutionNotes' = [resolutionNotes EXCEPT ![a] = EMPTY]
    /\ UNCHANGED <<now, complianceVars, deviceVars, departments, requests,
                   fsRequests, profiles, session, fetchedRequests, incidentVars, maintenanceVars, authVars,
                   adminRequests, pendingUpdates>>

\* onChange of the notes textarea, shown for a request in progress
setResolutionNotes(a, value) ==
    /\ selectedRequest[a] # NONE
    /\ selectedRequest[a].row.status = "in_progress"
    /\ resolutionNotes' = [resolutionNotes EXCEPT ![a] = value]
    /\ UNCHANGED <<now, complianceVars, deviceVars, departments, requests,
                   fsRequests, profiles, session, fetchedRequests, incidentVars, maintenanceVars, authVars,
                   adminRequests, selectedRequest, pendingUpdates>>

\* disabled={!resolutionNotes.trim()} of "Complete Request"
CompleteDisabled_never(notes) == FALSE

CompleteDisabled(notes) == ~Truthy(trim(notes))

\* The buttons of the list row of request id
RowOffers(a, id, newStatus) ==
    /\ adminRequests[a][id] # ABSENT
    /\ adminRequests[a][id].status = "pending"
    /\ newStatus \in {"in_progress", "rejected"}

\* The buttons of the open dialog
DialogOffers(a, id, newStatus) ==
    /\ selectedRequest[a] # NONE
    /\ selectedRequest[a].id = id
    /\ \/ /\ selectedRequest[a].row.status = "pending"
          /\ newStatus \in {"in_progress", "rejected"}
       \/ /\ selectedRequest[a].row.status = "in_progress"
          /\ newStatus = "completed"
          /\ ~CompleteDisabled(resolutionNotes[a])

\* The updates screen a is awaiting
Outstanding(a) == {u \in pendingUpdates : u.screen = a}

\* updateRequestStatus up to its await: builds updateData and sends the
\* update
clickStatus(a, id, newStatus) ==
    /\ RowOffers(a, id, newStatus) \/ DialogOffers(a, id, newStatus)
    /\ Cardinality(Outstanding(a)) < MaxOutstanding
    /\ pendingUpdates' = pendingUpdates \cup
         {[screen |-> a, requestId |-> id,
           data |-> updateData(newStatus, resolutionNotes[a], now)]}
    /\ UNCHANGED <<now, complianceVars, deviceVars, departments, requests,
                   fsRequests, profiles, session, fetchedRequests, incidentVars, maintenanceVars, authVars,
                   adminRequests, selectedRequest, resolutionNotes>>

\* The store applies the update and updateRequestStatus resumes: it starts
\* fetchRequests, closes the dialog and clears the notes
updateApplied(a, id, newStatus) ==
    /\ \E u \in Outstanding(a) :
         /\ u.requestId = id
         /\ u.data.status = newStatus
         /\ requests' = Updated(u.requestId, u.data)
         /\ pendingUpdates' = pendingUpdates \ {u}
    /\ selectedRequest' = [selectedRequest EXCEPT ![a] = NONE]
    /\ resolutionNotes' = [resolutionNotes EXCEPT ![a] = EMPTY]
    /\ UNCHANGED <<now, complianceVars, deviceVars, departments,
                   fsRequests, profiles, session, fetchedRequests, incidentVars, maintenanceVars, authVars,
                   adminRequests>>

\* The store answers with an error: nothing is written, the screen stays
updateFailed(a, id, newStatus) ==
    /\ \E u \in Outstanding(a) :
         /\ u.requestId = id
         /\ u.data.status = newStatus
         /\ pendingUpdates' = pendingUpdates \ {u}
    /\ UNCHANGED <<now, complianceVars, deviceVars, departments, requests,
                   fsRequests, profiles, session, fetchedRequests, incidentVars, maintenanceVars, authVars,
                   adminRequests, selectedRequest, resolutionNotes>>

AdminScreen(a) ==
    \/ setRequests(a)
    \/ \E id \in RequestIds : viewDetails(a, id)
    \/ \E id \in RequestIds : openComplete(a, id)
    \/ closeDetails(a)
    \/ \E value \in NotesChoices : setResolutionNotes(a, value)
    \/ \E id \in RequestIds, newStatus \in RequestStatuses :
           clickStatus(a, id, newStatus)
    \/ \E id \in RequestIds, newStatus \in RequestStatuses :
           updateApplied(a, id, newStatus)
    \/ \E id \in RequestIds, newStatus \in RequestStatuses :
           updateFailed(a, id, newStatus)

\* One admin at one screen
NextAdminScreen == AdminScreen(1)

\* Two admins, each at a screen
NextAdminScreens == \E a \in AdminScreens : AdminScreen(a)

---------------------------------------------------------------------------
(* The incident screen (IncidentManagement), open in up to two browsers *)

IncidentIds == {1}
IncidentStatuses == {"open", "investigating", "resolved", "closed"}

\* An incident reported earlier and not yet handled.
ReportedIncident ==
    [status |-> "open", root_cause |-> NULL, corrective_action |-> NULL,
     resolved_at |-> NULL]

IncidentIdle ==
    /\ incident_reports = [id \in IncidentIds |-> ReportedIncident]
    /\ incidents = [a \in AdminScreens |-> [id \in IncidentIds |-> ABSENT]]
    /\ selectedIncident = [a \in AdminScreens |-> NONE]
    /\ resolutionData = [a \in AdminScreens |-> [rootCause |-> EMPTY, correctiveAction |-> EMPTY]]
    /\ pendingIncidentUpdates = {}

\* fetchIncidents answers: setIncidents(data) with the rows as stored now
setIncidents(a) ==
    /\ incidents' = [incidents EXCEPT ![a] = incident_reports]
    /\ UNCHANGED <<now, complianceVars, deviceVars, departments, requests,
                   fsRequests, profiles, session, fetchedRequests, adminVars, maintenanceVars, authVars,
                   incident_reports, selectedIncident, resolutionData,
                   pendingIncidentUpdates>>

\* "View Details" of a listed incident: setSelectedIncident(incident)
viewIncident(a, id) ==
    /\ incidents[a][id] # ABSENT
    /\ selectedIncident' =
         [selectedIncident EXCEPT ![a] = [id |-> id, row |-> incidents[a][id]]]
    /\ UNCHANGED <<now, complianceVars, deviceVars, departments, requests,
                   fsRequests, profiles, session, fetchedRequests, adminVars, maintenanceVars, authVars,
                   incident_reports, incidents, resolutionData,
                   pendingIncidentUpdates>>

\* "Resolve" of a listed incident shown investigating: opens the dialog
\* with both fields cleared
openResolve(a, id) ==
    /\ incidents[a][id] # ABSENT
    /\ incidents[a][id].status = "investigating"
    /\ selectedIncident' =
         [selectedIncident EXCEPT ![a] = [id |-> id, row |-> incidents[a][id]]]
    /\ resolutionData' = [resolutionData EXCEPT ![a] = [rootCause |-> EMPTY, correctiveAction |-> EMPTY]]
    /\ UNCHANGED <<now, complianceVars, deviceVars, departments, requests,
                   fsRequests, profiles, session, fetchedRequests, adminVars, maintenanceVars, authVars,
                   incident_reports, incidents, pendingIncidentUpdates>>

\* The dialog's close button
closeIncident(a) ==
    /\ selectedIncident[a] # NONE
    /\ selectedIncident' = [selectedIncident EXCEPT ![a] = NONE]
    /\ resolutionData' = [resolutionData EXCEPT ![a] = [rootCause |-> EMPTY, correctiveAction |-> EMPTY]]
    /\ UNCHANGED <<now, complianceVars, deviceVars, departments, requests,
                   fsRequests, profiles, session, fetchedRequests, adminVars, maintenanceVars, authVars,
                   incident_reports, incidents, pendingIncidentUpdates>>

\* onChange of the two textareas, shown for an incident under investigation
setResolutionData(a, rootCause, correctiveAction) ==
    /\ selectedIncident[a] # NONE
    /\ selectedIncident[a].row.status = "investigating"
    /\ resolutionData' =
         [resolutionData EXCEPT ![a] =
              [rootCause |-> rootCause, correctiveAction |-> correctiveAction]]
    /\ UNCHANGED <<now, complianceVars, deviceVars, departments, requests,
                   fsRequests, profiles, session, fetchedRequests, adminVars, maintenanceVars, authVars,
                   incident_reports, incidents, selectedIncident,
                   pendingIncidentUpdates>>

\* disabled of "Resolve Incident"
ResolveDisabled(data) ==
    ~Truthy(trim(data.rootCause)) \/ ~Truthy(trim(data.correctiveAction))

\* The buttons of a list row and of the open dialog
IncidentOffers(a, id, newStatus) ==
    \/ /\ incidents[a][id] # ABSENT
       /\ incidents[a][id].status = "open"
       /\ newStatus = "investigating"
    \/ /\ selectedIncident[a] # NONE
       /\ selectedIncident[a].id = id
       /\ selectedIncident[a].row.status = "investigating"
       /\ newStatus = "resolved"
       /\ ~ResolveDisabled(resolutionData[a])

\* updateData of updateIncidentStatus
incidentUpdateData(newStatus, data, clock) ==
    IF newStatus = "resolved"
    THEN [status |-> newStatus, resolved_at |-> Stamp(clock),
          root_cause |-> data.rootCause,
          corrective_action |-> data.correctiveAction]
    ELSE [status |-> newStatus]

OutstandingIncident(a) == {u \in pendingIncidentUpdates : u.screen = a}

\* updateIncidentStatus up to its await
clickIncidentStatus(a, id, newStatus) ==
    /\ IncidentOffers(a, id, newStatus)
    /\ Cardinality(OutstandingIncident(a)) < MaxOutstanding
    /\ pendingIncidentUpdates' = pendingIncidentUpdates \cup
         {[screen |-> a, incidentId |-> id,
           data |-> incidentUpdateData(newStatus, resolutionData[a], now)]}
    /\ UNCHANGED <<now, complianceVars, deviceVars, departments, requests,
                   fsRequests, profiles, session, fetchedRequests, adminVars, maintenanceVars, authVars,
                   incident_reports, incidents, selectedIncident,
                   resolutionData>>

\* The store applies the update and updateIncidentStatus resumes: it starts
\* fetchIncidents, closes the dialog and clears the fields
incidentUpdateApplied(a, id, newStatus) ==
    /\ \E u \in OutstandingIncident(a) :
         /\ u.incidentId = id
         /\ u.data.status = newStatus
         /\ incident_reports' =
              [incident_reports EXCEPT ![id] = Merge(incident_reports[id], u.data)]
         /\ pendingIncidentUpdates' = pendingIncidentUpdates \ {u}
    /\ selectedIncident' = [selectedIncident EXCEPT ![a] = NONE]
    /\ resolutionData' = [resolutionData EXCEPT ![a] = [rootCause |-> EMPTY, correctiveAction |-> EMPTY]]
    /\ UNCHANGED <<now, complianceVars, deviceVars, departments, requests,
                   fsRequests, profiles, session, fetchedRequests, adminVars, maintenanceVars, authVars,
                   incidents>>

\* The store answers with an error: nothing is written, the screen stays
incidentUpdateFailed(a, id, newStatus) ==
    /\ \E u \in OutstandingIncident(a) :
         /\ u.incidentId = id
         /\ u.data.status = newStatus
         /\ pendingIncidentUpdates' = pendingIncidentUpdates \ {u}
    /\ UNCHANGED <<now, complianceVars, deviceVars, departments, requests,
                   fsRequests, profiles, session, fetchedRequests, adminVars, maintenanceVars, authVars,
                   incident_reports, incidents, selectedIncident,
                   resolutionData>>

IncidentScreen(a) ==
    \/ setIncidents(a)
    \/ \E id \in IncidentIds : viewIncident(a, id)
    \/ \E id \in IncidentIds : openResolve(a, id)
    \/ closeIncident(a)
    \/ \E rootCause \in NotesChoices, correctiveAction \in NotesChoices :
           setResolutionData(a, rootCause, correctiveAction)
    \/ \E id \in IncidentIds, newStatus \in IncidentStatuses :
           clickIncidentStatus(a, id, newStatus)
    \/ \E id \in IncidentIds, newStatus \in IncidentStatuses :
           incidentUpdateApplied(a, id, newStatus)
    \/ \E id \in IncidentIds, newStatus \in IncidentStatuses :
           incidentUpdateFailed(a, id, newStatus)

NextIncident == \E a \in AdminScreens : IncidentScreen(a)

---------------------------------------------------------------------------
(* The maintenance screen (MaintenanceManagement), open in up to two browsers *)

ScheduleIds == 1..MaxSchedules
ScheduleStatuses == {"scheduled", "in_progress", "completed", "cancelled"}
ScheduleNotes == {EMPTY, Text}

\* useState of formData: of the six fields the form edits, the notes stand
\* for the others, which are carried the same way
BlankForm == [notes |-> EMPTY]

MaintenanceIdle ==
    /\ maintenance_schedules = [id \in ScheduleIds |-> ABSENT]
    /\ schedules = [a \in AdminScreens |-> [id \in ScheduleIds |-> ABSENT]]
    /\ showForm = [a \in AdminScreens |-> FALSE]
    /\ editingSchedule = [a \in AdminScreens |-> NONE]
    /\ scheduleFormData = [a \in AdminScreens |-> BlankForm]
    /\ pendingScheduleWrites = {}
    /\ cameFrom = [id \in ScheduleIds |-> NULL]

\* fetchData answers: setSchedules(data) with the rows as stored now
Maintenance_fetchData(a) ==
    /\ schedules' = [schedules EXCEPT ![a] = maintenance_schedules]
    /\ UNCHANGED <<now, complianceVars, deviceVars, departments, requests,
                   fsRequests, profiles, session, fetchedRequests, adminVars,
                   incidentVars, authVars,
                   maintenance_schedules, showForm, editingSchedule,
                   scheduleFormData, pendingScheduleWrites, cameFrom>>

\* "Schedule Maintenance": setShowForm(true)
openForm(a) ==
    /\ ~showForm[a]
    /\ showForm' = [showForm EXCEPT ![a] = TRUE]
    /\ UNCHANGED <<now, complianceVars, deviceVars, departments, requests,
                   fsRequests, profiles, session, fetchedRequests, adminVars,
                   incidentVars, authVars,
                   maintenance_schedules, schedules, editingSchedule,
                   scheduleFormData, pendingScheduleWrites, cameFrom>>

\* "Edit" of a listed schedule
Maintenance_startEdit(a, id) ==
    /\ schedules[a][id] # ABSENT
    /\ editingSchedule' =
         [editingSchedule EXCEPT ![a] = [id |-> id]]
    /\ scheduleFormData' =
         [scheduleFormData EXCEPT ![a] =
              [notes |-> IF Truthy(schedules[a][id].notes)
                         THEN schedules[a][id].notes ELSE EMPTY]]
    /\ showForm' = [showForm EXCEPT ![a] = TRUE]
    /\ UNCHANGED <<now, complianceVars, deviceVars, departments, requests,
                   fsRequests, profiles, session, fetchedRequests, adminVars,
                   incidentVars, authVars,
                   maintenance_schedules, schedules, pendingScheduleWrites,
                   cameFrom>>

\* "Cancel" of the form
Maintenance_resetForm(a) ==
    /\ showForm[a]
    /\ showForm' = [showForm EXCEPT ![a] = FALSE]
    /\ editingSchedule' = [editingSchedule EXCEPT ![a] = NONE]
    /\ scheduleFormData' = [scheduleFormData EXCEPT ![a] = BlankForm]
    /\ UNCHANGED <<now, complianceVars, deviceVars, departments, requests,
                   fsRequests, profiles, session, fetchedRequests, adminVars,
                   incidentVars, authVars,
                   maintenance_schedules, schedules, pendingScheduleWrites,
                   cameFrom>>

\* onChange of the form's fields
setScheduleFormData(a, notes) ==
    /\ showForm[a]
    /\ scheduleFormData' =
         [scheduleFormData EXCEPT ![a] = [notes |-> notes]]
    /\ UNCHANGED <<now, complianceVars, deviceVars, departments, requests,
                   fsRequests, profiles, session, fetchedRequests, adminVars,
                   incidentVars, authVars,
                   maintenance_schedules, schedules, showForm, editingSchedule,
                   pendingScheduleWrites, cameFrom>>

\* scheduleData of handleSubmit
scheduleData(form) == [notes |-> OrNull(form.notes)]

\* The row an insert of scheduleData stores: the columns' defaults fill the rest
insertSchedule(data) ==
    [notes |-> data.notes, status |-> "scheduled", completed_date |-> NULL]

\* updateData of handleStatusUpdate
statusUpdateData(newStatus, clock) ==
    IF newStatus = "completed"
    THEN [status |-> newStatus, completed_date |-> DateStr(DayOf(clock))]
    ELSE [status |-> newStatus]

\* The buttons of a list row
ScheduleOffers(a, id, newStatus) ==
    /\ schedules[a][id] # ABSENT
    /\ \/ schedules[a][id].status = "scheduled" /\ newStatus = "in_progress"
       \/ schedules[a][id].status = "in_progress" /\ newStatus = "completed"

OutstandingSchedule(a) == {w \in pendingScheduleWrites : w.screen = a}
Saving(a) == \E w \in OutstandingSchedule(a) : w.op \in {"insert", "update"}

\* handleSubmit up to its await; the submit button is disabled while loading
Maintenance_handleSubmit(a) ==
    /\ showForm[a]
    /\ ~Saving(a)
    /\ Cardinality(OutstandingSchedule(a)) < MaxOutstanding
    /\ pendingScheduleWrites' = pendingScheduleWrites \cup
         {IF editingSchedule[a] # NONE
          THEN [screen |-> a, op |-> "update", id |-> editingSchedule[a].id,
                data |-> scheduleData(scheduleFormData[a])]
          ELSE [screen |-> a, op |-> "insert", id |-> NoId,
                data |-> scheduleData(scheduleFormData[a])]}
    /\ UNCHANGED <<now, complianceVars, deviceVars, departments, requests,
                   fsRequests, profiles, session, fetchedRequests, adminVars,
                   incidentVars, authVars,
                   maintenance_schedules, schedules, showForm, editingSchedule,
                   scheduleFormData, cameFrom>>

\* The store applies the insert or update and handleSubmit resumes:
\* resetForm(), then fetchData() is started
scheduleSaved(a) ==
    /\ \E w \in OutstandingSchedule(a) :
         /\ w.op \in {"insert", "update"}
         /\ IF w.op = "update"
            THEN /\ maintenance_schedules[w.id] # ABSENT
                 /\ maintenance_schedules' =
                      [maintenance_schedules EXCEPT
                           ![w.id] = Merge(maintenance_schedules[w.id], w.data)]
            ELSE \E id \in ScheduleIds :
                 /\ maintenance_schedules[id] = ABSENT
                 /\ \A j \in ScheduleIds : j < id => maintenance_schedules[j] # ABSENT
                 /\ maintenance_schedules' =
                      [maintenance_schedules EXCEPT ![id] = insertSchedule(w.data)]
         /\ pendingScheduleWrites' = pendingScheduleWrites \ {w}
    /\ showForm' = [showForm EXCEPT ![a] = FALSE]
    /\ editingSchedule' = [editingSchedule EXCEPT ![a] = NONE]
    /\ scheduleFormData' = [scheduleFormData EXCEPT ![a] = BlankForm]
    /\ UNCHANGED <<now, complianceVars, deviceVars, departments, requests,
                   fsRequests, profiles, session, fetchedRequests, adminVars,
                   incidentVars, authVars,
                   schedules, cameFrom>>

\* The store answers with an error: nothing is written, the form stays
scheduleSaveFailed(a) ==
    /\ \E w \in OutstandingSchedule(a) :
         /\ w.op \in {"insert", "update"}
         /\ pendingScheduleWrites' = pendingScheduleWrites \ {w}
    /\ UNCHANGED <<now, complianceVars, deviceVars, departments, requests,
                   fsRequests, profiles, session, fetchedRequests, adminVars,
                   incidentVars, authVars,
                   maintenance_schedules, schedules, showForm, editingSchedule,
                   scheduleFormData, cameFrom>>

\* handleStatusUpdate up to its await
Maintenance_handleStatusUpdate(a, id, newStatus) ==
    /\ ScheduleOffers(a, id, newStatus)
    /\ Cardinality(OutstandingSchedule(a)) < MaxOutstanding
    /\ pendingScheduleWrites' = pendingScheduleWrites \cup
         {[screen |-> a, op |-> "status", id |-> id,
           data |-> statusUpdateData(newStatus, now)]}
    /\ UNCHANGED <<now, complianceVars, deviceVars, departments, requests,
                   fsRequests, profiles, session, fetchedRequests, adminVars,
                   incidentVars, authVars,
                   maintenance_schedules, schedules, showForm, editingSchedule,
                   scheduleFormData, cameFrom>>

\* The store applies the status update; fetchData() is started
statusUpdateApplied(a, id, newStatus) ==
    /\ \E w \in OutstandingSchedule(a) :
         /\ w.op = "status"
         /\ w.id = id
         /\ w.data.status = newStatus
         /\ maintenance_schedules[id] # ABSENT
         /\ maintenance_schedules' =
              [maintenance_schedules EXCEPT
                   ![id] = Merge(maintenance_schedules[id], w.data)]
         /\ cameFrom' =
              IF maintenance_schedules[id].status = newStatus THEN cameFrom
              ELSE [cameFrom EXCEPT ![id] = maintenance_schedules[id].status]
         /\ pendingScheduleWrites' = pendingScheduleWrites \ {w}
    /\ UNCHANGED <<now, complianceVars, deviceVars, departments, requests,
                   fsRequests, profiles, session, fetchedRequests, adminVars,
                   incidentVars, authVars,
                   schedules, showForm, editingSchedule, scheduleFormData>>

\* The store answers with an error: nothing is written
statusUpdateFailed(a, id, newStatus) ==
    /\ \E w \in OutstandingSchedule(a) :
         /\ w.op = "status"
         /\ w.id = id
         /\ w.data.status = newStatus
         /\ pendingScheduleWrites' = pendingScheduleWrites \ {w}
    /\ UNCHANGED <<now, complianceVars, deviceVars, departments, requests,
                   fsRequests, profiles, session, fetchedRequests, adminVars,
                   incidentVars, authVars,
                   maintenance_schedules, schedules, showForm, editingSchedule,
                   scheduleFormData, cameFrom>>

MaintenanceScreen(a) ==
    \/ Maintenance_fetchData(a)
    \/ openForm(a)
    \/ \E id \in ScheduleIds : Maintenance_startEdit(a, id)
    \/ Maintenance_resetForm(a)
    \/ \E notes \in ScheduleNotes : setScheduleFormData(a, notes)
    \/ Maintenance_handleSubmit(a)
    \/ scheduleSaved(a)
    \/ scheduleSaveFailed(a)
    \/ \E id \in ScheduleIds, newStatus \in ScheduleStatuses :
           Maintenance_handleStatusUpdate(a, id, newStatus)
    \/ \E id \in ScheduleIds, newStatus \in ScheduleStatuses :
           statusUpdateApplied(a, id, newStatus)
    \/ \E id \in ScheduleIds, newStatus \in ScheduleStatuses :
           statusUpdateFailed(a, id, newStatus)

NextMaintenance == \E a \in AdminScreens : MaintenanceScreen(a)

---------------------------------------------------------------------------
(* Accounts, profiles and the AuthProvider *)

AdminEmail == "mhiskall123@gmail.com"
StaffEmail == "staff@hospital.example"
Emails == {AdminEmail, StaffEmail}

\* The uid Firebase Auth gives the account of an email
UidOf(email) == IF email = AdminEmail THEN 1 ELSE 2
Uids == {UidOf(email) : email \in Emails}
FirebaseUser(email) == [uid |-> UidOf(email), email |-> email]

\* handle_new_user: the role of the row inserted for NEW (NEWROW)
handle_new_user_role(NEWROW) ==
    IF NEWROW.email = AdminEmail THEN "admin" ELSE "user"

\* fetchUserProfile, the document exists: the profile set from profileData
existingProfile(u, profileData) ==
    [id |-> u.uid, email |-> u.email,
     role |-> IF profileData.role # "" THEN profileData.role
              ELSE IF u.email = AdminEmail THEN "admin" ELSE "user"]

\* fetchUserProfile, no document: newProfile
newProfile(u) == [role |-> IF u.email = AdminEmail THEN "admin" ELSE "user"]

\* value.isAdmin
isAdmin == userProfile # NULL /\ userProfile.role = "admin"

\* What AppContent renders
AppContent ==
    IF authLoading THEN "Loading"
    ELSE IF user = NULL THEN "LoginPage"
    ELSE IF isAdmin THEN "AdminDashboard"
    ELSE "UserDashboard"

Callback(email, pc) == [user |-> FirebaseUser(email), pc |-> pc]

\* The provider has mounted; the listener's first call is still to come
AuthIdle ==
    /\ registered_profiles = [email \in Emails |-> ABSENT]
    /\ accounts = {}
    /\ profileDocs = [u \in Uids |-> ABSENT]
    /\ user = NULL
    /\ userProfile = NULL
    /\ authLoading = TRUE
    /\ callbacks = {[user |-> NULL, pc |-> "start"]}
    /\ authCall = NONE

\* A row is inserted into auth.users and the trigger on_auth_user_created
\* inserts its profile
handle_new_user(email) ==
    /\ registered_profiles[email] = ABSENT
    /\ registered_profiles' =
         [registered_profiles EXCEPT ![email] =
              [email |-> email,
               role |-> handle_new_user_role([email |-> email])]]
    /\ UNCHANGED <<now, complianceVars, deviceVars, departments, requests,
                   fsRequests, profiles, session, fetchedRequests, adminVars,
                   incidentVars, maintenanceVars,
                   accounts, profileDocs, user, userProfile,
                   authLoading, callbacks, authCall>>

\* The listener's first call, with nobody signed in
onAuthStateChanged_first ==
    /\ [user |-> NULL, pc |-> "start"] \in callbacks
    /\ user' = NULL
    /\ userProfile' = NULL
    /\ authLoading' = FALSE
    /\ callbacks' = callbacks \ {[user |-> NULL, pc |-> "start"]}
    /\ UNCHANGED <<now, complianceVars, deviceVars, departments, requests,
                   fsRequests, profiles, session, fetchedRequests, adminVars,
                   incidentVars, maintenanceVars,
                   registered_profiles, accounts, profileDocs,
                   authCall>>

LoginPageShown == AppContent = "LoginPage" /\ authCall = NONE
NavbarShown == AppContent \in {"AdminDashboard", "UserDashboard"}

\* signIn up to its await of signInWithEmailAndPassword
signIn(email) ==
    /\ LoginPageShown
    /\ Cardinality(callbacks) < MaxCallbacks
    /\ authLoading' = TRUE
    /\ authCall' = [op |-> "signIn", email |-> email, pc |-> "auth"]
    /\ UNCHANGED <<now, complianceVars, deviceVars, departments, requests,
                   fsRequests, profiles, session, fetchedRequests, adminVars,
                   incidentVars, maintenanceVars,
                   registered_profiles, accounts, profileDocs, user,
                   userProfile, callbacks>>

\* signInWithGoogle up to its await of signInWithPopup
signInWithGoogle(email) ==
    /\ LoginPageShown
    /\ Cardinality(callbacks) < MaxCallbacks
    /\ authLoading' = TRUE
    /\ authCall' = [op |-> "google", email |-> email, pc |-> "auth"]
    /\ UNCHANGED <<now, complianceVars, deviceVars, departments, requests,
                   fsRequests, profiles, session, fetchedRequests, adminVars,
                   incidentVars, maintenanceVars,
                   registered_profiles, accounts, profileDocs, user,
                   userProfile, callbacks>>

\* signUp up to its await of createUserWithEmailAndPassword
signUp(email) ==
    /\ LoginPageShown
    /\ Cardinality(callbacks) < MaxCallbacks
    /\ authLoading' = TRUE
    /\ authCall' = [op |-> "signUp", email |-> email, pc |-> "auth"]
    /\ UNCHANGED <<now, complianceVars, deviceVars, departments, requests,
                   fsRequests, profiles, session, fetchedRequests, adminVars,
                   incidentVars, maintenanceVars,
                   registered_profiles, accounts, profileDocs, user,
                   userProfile, callbacks>>

\* Firebase Auth signs the account in (a first Google sign-in creates it):
\* the listener is called, setUser(user), and fetchUserProfile awaits getDoc
authResolved ==
    /\ authCall # NONE
    /\ authCall.pc = "auth"
    /\ \/ authCall.op = "signIn" /\ authCall.email \in accounts
       \/ authCall.op = "google"
    /\ accounts' = accounts \cup {authCall.email}
    /\ user' = FirebaseUser(authCall.email)
    /\ callbacks' = callbacks \cup {Callback(authCall.email, "getDoc")}
    /\ authCall' = [authCall EXCEPT !.pc = "return"]
    /\ UNCHANGED <<now, complianceVars, deviceVars, departments, requests,
                   fsRequests, profiles, session, fetchedRequests, adminVars,
                   incidentVars, maintenanceVars,
                   registered_profiles, profileDocs, userProfile,
                   authLoading>>

\* Firebase Auth creates the account and signs it in: the listener is
\* called, and signUp goes on to updateProfile and setDoc
createUserResolved ==
    /\ authCall # NONE
    /\ authCall.pc = "auth"
    /\ authCall.op = "signUp"
    /\ authCall.email \notin accounts
    /\ accounts' = accounts \cup {authCall.email}
    /\ user' = FirebaseUser(authCall.email)
    /\ callbacks' = callbacks \cup {Callback(authCall.email, "getDoc")}
    /\ authCall' = [authCall EXCEPT !.pc = "setDoc"]
    /\ UNCHANGED <<now, complianceVars, deviceVars, departments, requests,
                   fsRequests, profiles, session, fetchedRequests, adminVars,
                   incidentVars, maintenanceVars,
                   registered_profiles, profileDocs, userProfile,
                   authLoading>>

\* Firebase Auth rejects the call: catch, then finally setLoading(false)
authRejected ==
    /\ authCall # NONE
    /\ authCall.pc = "auth"
    /\ authLoading' = FALSE
    /\ authCall' = NONE
    /\ UNCHANGED <<now, complianceVars, deviceVars, departments, requests,
                   fsRequests, profiles, session, fetchedRequests, adminVars,
                   incidentVars, maintenanceVars,
                   registered_profiles, accounts, profileDocs, user,
                   userProfile, callbacks>>

\* signIn or signInWithGoogle resumes: finally setLoading(false)
signInReturns ==
    /\ authCall # NONE
    /\ authCall.pc = "return"
    /\ authLoading' = FALSE
    /\ authCall' = NONE
    /\ UNCHANGED <<now, complianceVars, deviceVars, departments, requests,
                   fsRequests, profiles, session, fetchedRequests, adminVars,
                   incidentVars, maintenanceVars,
                   registered_profiles, accounts, profileDocs, user,
                   userProfile, callbacks>>

\* signUp's setDoc is applied and signUp resumes: finally setLoading(false)
signUpProfileWritten ==
    /\ authCall # NONE
    /\ authCall.pc = "setDoc"
    /\ profileDocs' =
         [profileDocs EXCEPT ![UidOf(authCall.email)] = [role |-> "user"]]
    /\ authLoading' = FALSE
    /\ authCall' = NONE
    /\ UNCHANGED <<now, complianceVars, deviceVars, departments, requests,
                   fsRequests, profiles, session, fetchedRequests, adminVars,
                   incidentVars, maintenanceVars,
                   registered_profiles, accounts, user, userProfile,
                   callbacks>>

\* signUp's updateProfile or setDoc fails: catch, then finally
signUpProfileFailed ==
    /\ authCall # NONE
    /\ authCall.pc = "setDoc"
    /\ authLoading' = FALSE
    /\ authCall' = NONE
    /\ UNCHANGED <<now, complianceVars, deviceVars, departments, requests,
                   fsRequests, profiles, session, fetchedRequests, adminVars,
                   incidentVars, maintenanceVars,
                   registered_profiles, accounts, profileDocs, user,
                   userProfile, callbacks>>

\* fetchUserProfile's getDoc answers.  With a document: setProfile, and the
\* callback ends with setLoading(false).  Without: it goes on to setDoc.
getDocResolved(email) ==
    /\ Callback(email, "getDoc") \in callbacks
    /\ IF profileDocs[UidOf(email)] # ABSENT
       THEN /\ userProfile' =
                 existingProfile(FirebaseUser(email), profileDocs[UidOf(email)])
            /\ authLoading' = FALSE
            /\ callbacks' = callbacks \ {Callback(email, "getDoc")}
       ELSE /\ callbacks' = (callbacks \ {Callback(email, "getDoc")})
                                \cup {Callback(email, "setDoc")}
            /\ UNCHANGED <<userProfile, authLoading>>
    /\ UNCHANGED <<now, complianceVars, deviceVars, departments, requests,
                   fsRequests, profiles, session, fetchedRequests, adminVars,
                   incidentVars, maintenanceVars,
                   registered_profiles, accounts, profileDocs, user,
                   authCall>>

\* fetchUserProfile's setDoc(profileRef, newProfile) is applied: setProfile,
\* then initializeSampleData is awaited
setDocApplied(email) ==
    /\ Callback(email, "setDoc") \in callbacks
    /\ profileDocs' =
         [profileDocs EXCEPT ![UidOf(email)] = newProfile(FirebaseUser(email))]
    /\ userProfile' =
         [id |-> UidOf(email), email |-> email,
          role |-> newProfile(FirebaseUser(email)).role]
    /\ callbacks' = (callbacks \ {Callback(email, "setDoc")})
                        \cup {Callback(email, "sample")}
    /\ UNCHANGED <<now, complianceVars, deviceVars, departments, requests,
                   fsRequests, profiles, session, fetchedRequests, adminVars,
                   incidentVars, maintenanceVars,
                   registered_profiles, accounts, user, authLoading,
                   authCall>>

\* getDoc or setDoc fails: fetchUserProfile catches, and the callback ends
\* with setLoading(false)
fetchFailed(email) ==
    /\ \/ /\ Callback(email, "getDoc") \in callbacks
          /\ callbacks' = callbacks \ {Callback(email, "getDoc")}
       \/ /\ Callback(email, "setDoc") \in callbacks
          /\ callbacks' = callbacks \ {Callback(email, "setDoc")}
    /\ authLoading' = FALSE
    /\ UNCHANGED <<now, complianceVars, deviceVars, departments, requests,
                   fsRequests, profiles, session, fetchedRequests, adminVars,
                   incidentVars, maintenanceVars,
                   registered_profiles, accounts, profileDocs, user,
                   userProfile, authCall>>

\* initializeSampleData returns (its batch seeds departments, categories,
\* request types and devices, no profile); the callback ends with
\* setLoading(false)
sampleDataDone(email) ==
    /\ Callback(email, "sample") \in callbacks
    /\ authLoading' = FALSE
    /\ callbacks' = callbacks \ {Callback(email, "sample")}
    /\ UNCHANGED <<now, complianceVars, deviceVars, departments, requests,
                   fsRequests, profiles, session, fetchedRequests, adminVars,
                   incidentVars, maintenanceVars,
                   registered_profiles, accounts, profileDocs, user,
                   userProfile, authCall>>

\* signOut from the navbar: firebaseSignOut, the listener is called with
\* null (setUser(null), setProfile(null), setLoading(false)), then
\* signOut's own setProfile(null)
signOut ==
    /\ NavbarShown
    /\ user' = NULL
    /\ userProfile' = NULL
    /\ authLoading' = FALSE
    /\ UNCHANGED <<now, complianceVars, deviceVars, departments, requests,
                   fsRequests, profiles, session, fetchedRequests, adminVars,
                   incidentVars, maintenanceVars,
                   registered_profiles, accounts, profileDocs,
                   callbacks, authCall>>

NextAuth ==
    \/ \E email \in Emails : handle_new_user(email)
    \/ onAuthStateChanged_first
    \/ \E email \in Emails : signIn(email)
    \/ \E email \in Emails : signInWithGoogle(email)
    \/ \E email \in Emails : signUp(email)
    \/ authResolved
    \/ createUserResolved
    \/ authRejected
    \/ signInReturns
    \/ signUpProfileWritten
    \/ signUpProfileFailed
    \/ \E email \in Emails : getDocResolved(email)
    \/ \E email \in Emails : setDocApplied(email)
    \/ \E email \in Emails : fetchFailed(email)
    \/ \E email \in Emails : sampleDataDone(email)
    \/ signOut

ScreensIdle == AdminIdle /\ IncidentIdle /\ MaintenanceIdle /\ AuthIdle

---------------------------------------------------------------------------
(* Specifications *)

InitCompliance ==
    /\ now = 0
    /\ ComplianceIdle
    /\ DeviceIdle
    /\ RequestIdle
    /\ FsRequestIdle
    /\ AccessIdle
    /\ ScreensIdle

SpecCompliance == InitCompliance /\ [][NextCompliance]_vars

InitDevice ==
    /\ now \in {s * TicksPerDay : s \in StartDays}
    /\ ComplianceIdle
    /\ DeviceIdle
    /\ RequestIdle
    /\ FsRequestIdle
    /\ AccessIdle
    /\ ScreensIdle

SpecDevice == InitDevice /\ [][NextDevice]_vars

InitRequest ==
    /\ now = 0
    /\ ComplianceIdle
    /\ DeviceIdle
    /\ RequestIdle
    /\ FsRequestIdle
    /\ AccessIdle
    /\ ScreensIdle

SpecRequest == InitRequest /\ [][NextRequest]_vars

\* The two derivations over their whole domain: the screen opens at any
\* instant, the form is fed every value, and the departments table takes
\* every content.
NextDerivation ==
    \/ fetchData
    \/ \E value \in ExpiryInputs : setExpiryDate(value)
    \/ handleSubmit
    \/ writeFailed
    \/ \E d \in DepartmentIds, flag \in BOOLEAN : setDepartmentCritical(d, flag)

InitDerivation ==
    /\ now \in 0..MaxTick
    /\ ComplianceIdle
    /\ DeviceIdle
    /\ RequestIdle
    /\ FsRequestIdle
    /\ AccessIdle
    /\ ScreensIdle

SpecDerivation == InitDerivation /\ [][NextDerivation]_vars

InitFsRequest ==
    /\ now = 0
    /\ ComplianceIdle
    /\ DeviceIdle
    /\ RequestIdle
    /\ FsRequestIdle
    /\ AccessIdle
    /\ ScreensIdle

SpecFsRequest == InitFsRequest /\ [][NextFsRequest]_vars

InitAccess ==
    /\ now = 0
    /\ ComplianceIdle
    /\ DeviceIdle
    /\ RequestIdle
    /\ FsRequestIdle
    /\ AccessIdle
    /\ ScreensIdle

SpecAccess == InitAccess /\ [][NextAccess]_vars

\* One request is on file when the admin screens open.
InitAdmin ==
    /\ now = 0
    /\ ComplianceIdle
    /\ DeviceIdle
    /\ departments = [d \in DepartmentIds |-> [is_critical |-> d = 1]]
    /\ \E row \in FiledRequests :
         requests = [id \in RequestIds |-> IF id = 1 THEN row ELSE ABSENT]
    /\ FsRequestIdle
    /\ AccessIdle
    /\ ScreensIdle

SpecAdminScreen == InitAdmin /\ [][NextAdminScreen]_vars

SpecAdminScreens == InitAdmin /\ [][NextAdminScreens]_vars

InitIncident ==
    /\ now = 0
    /\ ComplianceIdle
    /\ DeviceIdle
    /\ RequestIdle
    /\ FsRequestIdle
    /\ AccessIdle
    /\ ScreensIdle

SpecIncident == InitIncident /\ [][NextIncident]_vars

InitMaintenance ==
    /\ now = 0
    /\ ComplianceIdle
    /\ DeviceIdle
    /\ RequestIdle
    /\ FsRequestIdle
    /\ AccessIdle
    /\ ScreensIdle

SpecMaintenance == InitMaintenance /\ [][NextMaintenance]_vars

InitAuth ==
    /\ now = 0
    /\ ComplianceIdle
    /\ DeviceIdle
    /\ RequestIdle
    /\ FsRequestIdle
    /\ AccessIdle
    /\ ScreensIdle

SpecAuth == InitAuth /\ [][NextAuth]_vars

---------------------------------------------------------------------------
(* Properties of the compliance screen *)

\* The write handleSubmit has built, when one is outstanding.
Evaluated == inflight # NONE
EvaluatedDate == Evaluated /\ inflight.input.kind = "date"
ExpiryInstant == inflight.input.day * TicksPerDay

\* C1: an expiry date strictly earlier than the instant of evaluation is
\* classified expired.
C1_ExpiredWhenBeforeNow ==
    (EvaluatedDate /\ ExpiryInstant < inflight.at)
        => inflight.recordData.status = "expired"

C1_Witness ==
    /\ EvaluatedDate
    /\ ExpiryInstant < inflight.at
    /\ inflight.recordData.status = "expired"

\* C2: an expiry date from the evaluation instant up to (not including) 30
\* days later, and in particular an expiry date that is the date of the
\* evaluation itself, is classified pending_renewal.
C2_PendingRenewalInWindow ==
    (EvaluatedDate
       /\ \/ /\ inflight.at <= ExpiryInstant
             /\ ExpiryInstant < inflight.at + RenewalWindowDays * TicksPerDay
          \/ inflight.input.day = DayOf(inflight.at))
        => inflight.recordData.status = "pending_renewal"

C4_AbsentExpiryIsValid ==
    /\ getComplianceStatus(NULL, now) = "valid"
    /\ getComplianceStatus(EMPTY, now) = "valid"
    /\ (Evaluated /\ inflight.input = EMPTY)
           => inflight.recordData = [expiry_date |-> NULL, status |-> "valid"]
    /\ \A id \in RecordIds :
           (compliance_records[id] # ABSENT
              /\ compliance_records[id].expiry_date = NULL)
               => compliance_records[id].status = "valid"

C4_Witness ==
    /\ now > 0
    /\ \E id \in RecordIds :
           /\ compliance_records[id] # ABSENT
           /\ compliance_records[id].expiry_date = NULL
           /\ compliance_records[id].status = "valid"

\* C5: every stored compliance record's status equals the status derived
\* from its expiry date at the current time.
C5_StoredStatusNeverStale ==
    \A id \in RecordIds :
        compliance_records[id] # ABSENT
            => compliance_records[id].status =
                   getComplianceStatus(compliance_records[id].expiry_date, now)

\* The rows of one profile's new requests, over every urgency level,
\* department (critical, not critical, none), priority and patient impact.
EscalationInputs ==
    [user_id : {2}, urgency_level : UrgencyLevels,
     department_id : DepartmentIds \cup {NoId}, priority : Priorities,
     patient_impact : BOOLEAN, status : {"pending"}]

\* C15: both derivations are total: at every instant every expiry value
\* (absent, unparseable or a date) is given one of the three statuses, an
\* unparseable expiry date is given valid, and every combination of urgency
\* level, department criticality, priority and patient impact is given a
\* request row.
C15_DerivationsTotal ==
    /\ \A expiryDate \in ExpiryInputs \cup {NULL} :
           getComplianceStatus(expiryDate, now) \in Statuses
    /\ getComplianceStatus(Unparseable, now) = "valid"
    /\ Evaluated => inflight.recordData.status \in Statuses
    /\ (Evaluated /\ inflight.input = Unparseable)
           => inflight.recordData.status = "valid"
    /\ \A row \in EscalationInputs :
           /\ check_request_escalation(row).priority \in Priorities
           /\ check_request_escalation(row).patient_impact \in BOOLEAN

C15_Witness ==
    /\ Evaluated
    /\ inflight.input = Unparseable
    /\ inflight.at > 0
    /\ inflight.recordData.status = "valid"

\* The step stores a row for record id in the compliance_records table.
RecordWritten(id) ==
    compliance_records'[id] # compliance_records[id]
        /\ compliance_records'[id] # ABSENT

\* C16: the status a write stores is the status of its expiry date at the
\* instant the write is applied.
C16_StatusAsOfWriteInstant ==
    [][\A id \in RecordIds :
           RecordWritten(id)
               => compliance_records'[id].status =
                      getComplianceStatus(compliance_records'[id].expiry_date, now')
      ]_vars

\* C18: the step in which the form's status is computed changes no
\* compliance record, device or request, and the table changes only when an
\* outstanding write is applied, by exactly the row that write carries.
C18_EvaluationWritesNothing ==
    [][/\ (inflight = NONE /\ inflight' # NONE)
              => /\ compliance_records' = compliance_records
                 /\ devices' = devices
                 /\ fsDevices' = fsDevices
                 /\ requests' = requests
                 /\ fsRequests' = fsRequests
       /\ compliance_records' # compliance_records
              => /\ inflight # NONE
                 /\ \E id \in RecordIds :
                        compliance_records' =
                            [compliance_records EXCEPT ![id] = inflight.recordData]
      ]_vars

C18_Witness ==
    /\ Evaluated
    /\ inflight.id # NoId
    /\ compliance_records[inflight.id] # ABSENT
    /\ inflight.recordData # compliance_records[inflight.id]

---------------------------------------------------------------------------
(* Properties of the device writes *)

\* The step stores a row for device id in the devices table.
DeviceWritten(id) == devices'[id] # devices[id] /\ devices'[id] # ABSENT

\* maintenance_interval_days of the equipment type of a row that has one
IntervalOf(row) == equipment_types[row.equipment_type_id].maintenance_interval_days

HasInterval(row) == row.equipment_type_id # NoId /\ IntervalOf(row) # NULL

\* C6: a written device's next maintenance date is its last maintenance date,
\* or the date of the write when it has none, plus the interval of its
\* equipment type; none and 90 on 2024-01-01 give 2024-03-31, and 2024-01-01
\* and 30 give 2024-01-31 whatever the date of the write.
C6_NextMaintenanceDate ==
    [][\A id \in DeviceIds :
          (DeviceWritten(id) /\ HasInterval(devices'[id])) =>
              LET row == devices'[id]
                  n == IntervalOf(row).val
                  base == IF row.last_maintenance_date # NULL
                          THEN row.last_maintenance_date.day
                          ELSE DayOf(now)
              IN  /\ row.next_maintenance_date = DateStr(base + n)
                  /\ (/\ row.last_maintenance_date = NULL
                      /\ n = 90
                      /\ ToYMD(DayOf(now)) = <<2024, 1, 1>>)
                         => ToYMD(row.next_maintenance_date.day) = <<2024, 3, 31>>
                  /\ (/\ row.last_maintenance_date = DateStr(FromYMD(2024, 1, 1))
                      /\ n = 30)
                         => ToYMD(row.next_maintenance_date.day) = <<2024, 1, 31>>
      ]_vars

C6_Witness ==
    \E id \in DeviceIds :
        /\ devices[id] # ABSENT
        /\ HasInterval(devices[id])
        /\ IntervalOf(devices[id]) = SqlInt(30)
        /\ devices[id].last_maintenance_date = DateStr(FromYMD(2024, 1, 1))
        /\ devices[id].next_maintenance_date = DateStr(FromYMD(2024, 1, 31))
        /\ ToYMD(CURRENT_DATE) = <<2024, 6, 1>>

\* C7: an interval of zero or less never yields a next maintenance date: no
\* stored next maintenance date of a device with an equipment type is on or
\* before the last maintenance date it was derived from.
C7_NoDateFromNonPositiveInterval ==
    \A id \in DeviceIds :
        (/\ devices[id] # ABSENT
         /\ devices[id].equipment_type_id # NoId
         /\ devices[id].last_maintenance_date # NULL
         /\ devices[id].next_maintenance_date # NULL)
            => devices[id].next_maintenance_date.day
                   > devices[id].last_maintenance_date.day

\* C8: every device create or update, in the table or in the document
\* store, leaves the device with the derived next maintenance date.
C8_EveryDeviceWriteDerivesNextDate ==
    [][\A id \in DeviceIds :
          /\ (DeviceWritten(id) /\ HasInterval(devices'[id])) =>
                 devices'[id].next_maintenance_date =
                     PlusDays(COALESCE(devices'[id].last_maintenance_date,
                                       DateStr(DayOf(now))),
                              IntervalOf(devices'[id]).val)
          /\ (fsDevices'[id] # fsDevices[id] /\ fsDevices'[id] # ABSENT) =>
                 "nextMaintenanceDate" \in DOMAIN fsDevices'[id]
      ]_vars

---------------------------------------------------------------------------
(* Properties of the request writes *)

\* C9: a stored request whose urgency level is emergency or critical has
\* priority urgent whatever priority was supplied; (emergency, department
\* not critical, low, no patient impact) is stored as (urgent, no impact).
C9_EmergencyIsUrgent ==
    /\ \A id \in RequestIds :
           (requests[id] # ABSENT
              /\ requests[id].urgency_level \in {"emergency", "critical"})
               => requests[id].priority = "urgent"
    /\ \A d \in (DepartmentIds \cup {NoId}) \ CriticalDepartments :
           LET out == check_request_escalation(
                          [urgency_level |-> "emergency", department_id |-> d,
                           priority |-> "low", patient_impact |-> FALSE,
                           status |-> "pending"])
           IN  out.priority = "urgent" /\ out.patient_impact = FALSE

C9_Witness ==
    \E id \in RequestIds :
        /\ requests[id] # ABSENT
        /\ requests[id].urgency_level = "critical"
        /\ requests[id].priority = "urgent"
        /\ requests[id].department_id \notin CriticalDepartments
        /\ requests[id].patient_impact = FALSE

\* The step stores a row for request id in the requests table.
RequestWritten(id) == requests'[id] # requests[id] /\ requests'[id] # ABSENT

\* C10: a request written while its department is flagged critical is
\* stored with patient impact true whatever value was supplied; (routine,
\* critical department, high, no patient impact) is stored as (high, impact).
C10_CriticalDepartmentSetsImpact ==
    [][/\ \A id \in RequestIds :
             (RequestWritten(id)
                /\ requests'[id].department_id \in CriticalDepartments)
                 => requests'[id].patient_impact = TRUE
       /\ \A d \in CriticalDepartments :
             LET out == check_request_escalation(
                            [urgency_level |-> "routine", department_id |-> d,
                             priority |-> "high", patient_impact |-> FALSE,
                             status |-> "pending"])
             IN  out.priority = "high" /\ out.patient_impact = TRUE
      ]_vars

C10_Witness ==
    \E id \in RequestIds :
        /\ requests[id] # ABSENT
        /\ requests[id].department_id \in CriticalDepartments
        /\ requests[id].urgency_level = "routine"
        /\ requests[id].priority = "high"
        /\ requests[id].patient_impact = TRUE

---------------------------------------------------------------------------
(* Properties of the escalation as a function of the supplied row *)

\* Every row a statement can hand to the trigger.
InputRows ==
    [user_id : ProfileIds, urgency_level : UrgencyLevels,
     department_id : DepartmentIds \cup {NoId}, priority : Priorities,
     patient_impact : BOOLEAN, status : RequestStatuses]

\* No request is stored yet: the states in which the escalation is evaluated
\* for every row it can be handed, once for each content of the departments
\* table.
NoRequests == \A id \in RequestIds : requests[id] = ABSENT

\* Position of a priority in the order low < medium < high < urgent.
Rank(priority) ==
    IF priority = "low" THEN 0
    ELSE IF priority = "medium" THEN 1
    ELSE IF priority = "high" THEN 2
    ELSE 3

\* The stored row is at least as escalated as the supplied one.
NotLowered(in, out) ==
    /\ Rank(out.priority) >= Rank(in.priority)
    /\ in.patient_impact = TRUE => out.patient_impact = TRUE

\* C11: the escalation never lowers what was supplied: the stored priority
\* is never below the supplied one in low < medium < high < urgent, and a
\* supplied patient impact of true is never stored as false.
C11_EscalationMonotonic ==
    [][/\ NoRequests =>
             \A row \in InputRows :
                 NotLowered(row, check_request_escalation(row))
       /\ \A id \in RequestIds :
             (RequestWritten(id) /\ requests[id] # ABSENT)
                 => NotLowered(requests[id], requests'[id])
      ]_vars

C11_Witness ==
    \E id \in RequestIds :
        /\ requests[id] # ABSENT
        /\ requests[id].status = "in_progress"
        /\ requests[id].urgency_level = "critical"
        /\ requests[id].priority = "urgent"
        /\ requests[id].department_id \notin CriticalDepartments
        /\ requests[id].patient_impact = TRUE

\* The fields of in that out keeps although a rule could have changed them.
Framed(in, out) ==
    /\ in.urgency_level \in {"routine", "urgent"} => out.priority = in.priority
    /\ in.department_id \notin CriticalDepartments
           => out.patient_impact = in.patient_impact
    /\ out.user_id = in.user_id
    /\ out.urgency_level = in.urgency_level
    /\ out.department_id = in.department_id
    /\ out.status = in.status

\* C12: with urgency level routine or urgent the priority is stored as
\* supplied; with a department that is not critical, or no department, the
\* patient impact is stored as supplied; no other field of the request is
\* changed by the escalation.
C12_EscalationFrame ==
    [][/\ NoRequests =>
             \A row \in InputRows : Framed(row, check_request_escalation(row))
       /\ \A id \in RequestIds :
             (RequestWritten(id) /\ requests[id] # ABSENT)
                 => Framed([requests[id] EXCEPT !.status = requests'[id].status],
                           requests'[id])
      ]_vars

C12_Witness ==
    \E id \in RequestIds :
        /\ requests[id] # ABSENT
        /\ requests[id].status = "in_progress"
        /\ requests[id].urgency_level = "urgent"
        /\ requests[id].priority = "low"
        /\ requests[id].department_id = NoId
        /\ requests[id].patient_impact = FALSE

\* C13: the two rules commute: applying the priority rule before the
\* patient-impact rule gives the same row as applying it after, for every
\* supplied row, and every stored row is the result of either order.
C13_RulesCommute ==
    [][/\ NoRequests =>
             \A row \in InputRows :
                 rule_patient_impact(rule_priority(row))
                     = rule_priority(rule_patient_impact(row))
       /\ \A id \in RequestIds :
             RequestWritten(id) =>
                 /\ rule_patient_impact(rule_priority(requests'[id])) = requests'[id]
                 /\ rule_priority(rule_patient_impact(requests'[id])) = requests'[id]
      ]_vars

C13_Witness ==
    \E id \in RequestIds :
        /\ requests[id] # ABSENT
        /\ requests[id].status = "rejected"
        /\ requests[id].urgency_level = "emergency"
        /\ requests[id].priority = "urgent"
        /\ requests[id].department_id \in CriticalDepartments
        /\ requests[id].patient_impact = TRUE

---------------------------------------------------------------------------
(* Properties of the document-store path *)

\* The step stores document id in the 'requests' collection.
DocWritten(id) == fsRequests'[id] # fsRequests[id] /\ fsRequests'[id] # ABSENT

\* What the trigger of the requests table stores for the fields of doc.
Escalated(doc) ==
    check_request_escalation(
        [user_id |-> doc.userId, urgency_level |-> doc.urgencyLevel,
         department_id |-> doc.departmentId, priority |-> doc.priority,
         patient_impact |-> doc.patientImpact, status |-> doc.status])

\* C19: a request created through the request dialog is stored in the
\* document collection with the priority and patient impact the trigger of
\* the requests table stores for the same urgency level, department,
\* priority and patient impact.
C19_DocumentPathEscalates ==
    [][\A id \in DocIds :
           DocWritten(id) =>
               /\ fsRequests'[id].priority = Escalated(fsRequests'[id]).priority
               /\ fsRequests'[id].patientImpact
                      = Escalated(fsRequests'[id]).patient_impact
      ]_vars

---------------------------------------------------------------------------
(* Properties of the access policies of the requests table *)

\* The profiles of the session's user, and whether one of them is an admin.
SessionProfiles == {p \in ProfileIds : profiles[p].user_id = session}
SessionIsAdmin == \E p \in SessionProfiles : profiles[p].role = "admin"

\* C20: a row enters the requests table only under a profile of the
\* session's own user, a stored request changes only in the session of an
\* admin, and a SELECT returns to a session that is not an admin's only
\* requests filed under its own profile.
C20_RequestAccess ==
    [][/\ \A id \in RequestIds :
             requests'[id] # requests[id] =>
                 IF requests[id] = ABSENT
                 THEN session # NoId /\ requests'[id].user_id \in SessionProfiles
                 ELSE session # NoId /\ SessionIsAdmin
       /\ \A id \in fetchedRequests' \ fetchedRequests :
             /\ session # NoId
             /\ SessionIsAdmin \/ requests[id].user_id \in SessionProfiles
      ]_vars

C20_Witness ==
    /\ session # NoId
    /\ ~SessionIsAdmin
    /\ \E id \in fetchedRequests :
           /\ requests[id].user_id \in SessionProfiles
           /\ requests[id].status = "in_progress"
    /\ \E p \in ProfileIds \ SessionProfiles : profiles[p].role = "admin"

---------------------------------------------------------------------------
(* Properties of the admin request screen *)

\* The step changes the stored status of request id.
StatusMoved(id) ==
    /\ requests[id] # ABSENT
    /\ requests'[id] # ABSENT
    /\ requests'[id].status # requests[id].status

\* The moves of a request's status the screen is meant to make.
LegalMoves ==
    {<<"pending", "in_progress">>, <<"pending", "rejected">>,
     <<"in_progress", "completed">>}

\* C21: with one admin screen open, the stored status of a request only
\* moves pending -> in_progress, pending -> rejected or in_progress ->
\* completed; it never leaves completed or rejected and never returns to
\* pending.
C21_LegalStatusMoves ==
    [][\A id \in RequestIds :
           StatusMoved(id) =>
               <<requests[id].status, requests'[id].status>> \in LegalMoves
      ]_vars

\* C22: every request stored as completed has non-empty resolution notes
\* and a completion timestamp, whichever screen's update stored it.
C22_CompletedHasNotes ==
    [][\A id \in RequestIds :
           (requests'[id] # ABSENT /\ requests'[id].status = "completed")
               => /\ Truthy(requests'[id].resolution_notes)
                  /\ requests'[id].completed_at # NULL
      ]_vars

C22_Witness ==
    /\ requests[1].status = "completed"
    /\ requests[1].resolution_notes = Text
    /\ requests[1].completed_at = Stamp(now)
    /\ adminRequests[2][1] # ABSENT
    /\ adminRequests[2][1].status = "pending"

\* C23: with two admin screens open, a request stored as completed or
\* rejected never changes status again, and a stored status only moves to a
\* status the screen offers for the stored status.
C23_NoStaleStatusMove ==
    [][\A id \in RequestIds :
           (requests[id] # ABSENT /\ requests'[id] # ABSENT) =>
               /\ requests[id].status \in {"completed", "rejected"}
                      => requests'[id].status = requests[id].status
               /\ StatusMoved(id)
                      => requests'[id].status \in OfferedStatuses(requests[id].status)
      ]_vars

---------------------------------------------------------------------------
(* Properties of the incident screen *)

\* C24: every incident stored as resolved has a resolution timestamp and
\* non-empty root cause and corrective action; the stored status becomes
\* resolved only from investigating, and investigating only from open.
C24_ResolvedIncident ==
    [][\A id \in IncidentIds :
           /\ incident_reports'[id].status = "resolved"
                  => /\ incident_reports'[id].resolved_at # NULL
                     /\ Truthy(incident_reports'[id].root_cause)
                     /\ Truthy(incident_reports'[id].corrective_action)
           /\ incident_reports'[id].status # incident_reports[id].status
                  => /\ incident_reports'[id].status = "resolved"
                         => incident_reports[id].status = "investigating"
                     /\ incident_reports'[id].status = "investigating"
                         => incident_reports[id].status = "open"
      ]_vars

---------------------------------------------------------------------------
(* Properties of the maintenance screen *)

DetailsChanged(id) ==
    /\ maintenance_schedules[id] # ABSENT
    /\ maintenance_schedules'[id] # ABSENT
    /\ maintenance_schedules'[id].notes # maintenance_schedules[id].notes

BecameCompleted(id) ==
    /\ maintenance_schedules[id] # ABSENT
    /\ maintenance_schedules'[id] # ABSENT
    /\ maintenance_schedules[id].status # "completed"
    /\ maintenance_schedules'[id].status = "completed"

\* C25: every schedule stored as completed has a completed_date; a schedule
\* becomes completed only from in_progress entered from scheduled; a write
\* that changes a schedule's details leaves its status and completed_date.
C25_CompletedSchedule ==
    [][\A id \in ScheduleIds :
           /\ (maintenance_schedules'[id] # ABSENT
                  /\ maintenance_schedules'[id].status = "completed")
                 => maintenance_schedules'[id].completed_date # NULL
           /\ BecameCompleted(id)
                 => /\ maintenance_schedules[id].status = "in_progress"
                    /\ cameFrom[id] = "scheduled"
           /\ DetailsChanged(id)
                 => /\ maintenance_schedules'[id].status
                          = maintenance_schedules[id].status
                    /\ maintenance_schedules'[id].completed_date
                          = maintenance_schedules[id].completed_date
      ]_vars

---------------------------------------------------------------------------
(* Properties of accounts and the AuthProvider *)

\* No step of the registration of the account is still to come
Registered(email) ==
    /\ profileDocs[UidOf(email)] # ABSENT
    /\ authCall = NONE
    /\ \A c \in callbacks : c.user = NULL \/ c.user.email # email

\* C26: a registered account has role admin exactly if its email is the
\* administrator's address, whether its profile came from the trigger, from
\* the first login or from signUp.
C26_AdminIffAdminEmail ==
    \A email \in Emails :
        /\ registered_profiles[email] # ABSENT
              => (registered_profiles[email].role = "admin" <=> email = AdminEmail)
        /\ Registered(email)
              => (profileDocs[UidOf(email)].role = "admin" <=> email = AdminEmail)

\* C27: when the provider is not loading and a user is signed in, the profile
\* is loaded, so the user dashboard is not shown to an account stored as admin.
C27_ProfileLoadedWhenShown ==
    (~authLoading /\ user # NULL)
        => /\ userProfile # NULL
           /\ (/\ AppContent = "UserDashboard"
               /\ profileDocs[user.uid] # ABSENT)
                  => profileDocs[user.uid].role # "admin"

\* C28: when no user is signed in, there is no profile and isAdmin is false.
C28_NoProfileWithoutUser ==
    user = NULL => (userProfile = NULL /\ ~isAdmin)

====
